---- MODULE Spec2Model ----
(***************************************************************************)
(* Model of the Streamlit inventory dashboard, src/inventory_dashboard.py. *)
(*                                                                         *)
(* One script run is modelled as a pipeline of steps in source order:      *)
(*   get_data_from_google_sheet (one step per week of its loop),           *)
(*   the warning display, the inventory search form, the cross-location    *)
(*   aggregation, the weekly change / Last Week Usage computation, the      *)
(*   low-stock filter with its per-location detail table, and the          *)
(*   low-stock search form with its display.                               *)
(*                                                                         *)
(* Representation                                                          *)
(*   - a text cell is a sequence of one-character strings ("" is <<>>);    *)
(*   - a raw Quantity cell is [k, v]: a number v, a non-numeric text or a  *)
(*     blank cell;                                                         *)
(*   - an as-of label (cell I1) is the sequence of its '/'-separated       *)
(*     components, <<m, d, y>> for "m/d/y"; an empty cell is <<>>;         *)
(*   - a table cell is [k, v]: a number, the "N/A" marker, or the text a   *)
(*     number was formatted to by df_to_html_table;                        *)
(*   - a DataFrame column keyed by a label is an entry of the row's q      *)
(*     function, a change column an entry of its chg function, so that     *)
(*     assigning to an existing column name overwrites it as in pandas.    *)
(***************************************************************************)
EXTENDS Integers, Sequences, FiniteSets, TLC

VARIABLES
    sheet,              \* the Google Sheet "INVENTORY_API": week -> worksheet
    pc,                 \* position of the script run
    wk,                 \* loop variable of the loader's "for week in weeks"
    dataframes,         \* dataframes[week]: normalised rows
    update_dates,       \* update_dates[week]: the I1 label
    inconsistencies,    \* collected warnings, <<week, sheet row number>>
    errOut,             \* the st.error shown, "" when none
    warnOut,            \* the warnings written by the main script
    search_term,        \* value of the inventory search text input
    submit_button,      \* value of the inventory search submit button
    searchOut,          \* outcome of the search step
    result_df,          \* the search result table
    low_stock_df,       \* the aggregated low-stock table
    low_stock_total,    \* its rows with stock below Last Week Usage
    detailed_low_stock, \* the per-location detail table
    low_stock_search_term,
    low_stock_submit_button,
    lsOut,              \* outcome of the low-stock display
    lsShown,            \* the table handed to the low-stock display
    ran                 \* the reconciliation code regions executed in this run

vars == <<sheet, pc, wk, dataframes, update_dates, inconsistencies, errOut,
          warnOut, search_term, submit_button, searchOut, result_df,
          low_stock_df, low_stock_total, detailed_low_stock,
          low_stock_search_term, low_stock_submit_button, lsOut, lsShown, ran>>

----------------------------------------------------------------------------
(* Bounds of the model *)

\* largest raw quantity of a generated worksheet row
MaxQty == 2

\* the number of weekly worksheets, "week 1" .. "week 5"
NumWeeks == 5

weeks == 1..NumWeeks

----------------------------------------------------------------------------
(* Text: characters, code points, case folding, comparison, containment *)

Code(c) ==
    CASE c = "A" -> 65 [] c = "B" -> 66 [] c = "D" -> 68 [] c = "T" -> 84
      [] c = "a" -> 97 [] c = "b" -> 98 [] c = "c" -> 99 [] c = "u" -> 117
      [] c = "x" -> 120 [] c = "z" -> 122

LowerChar(c) ==
    CASE c = "A" -> "a" [] c = "B" -> "b" [] c = "D" -> "d" [] c = "T" -> "t"
      [] OTHER -> c

Lower(s) == [i \in 1..Len(s) |-> LowerChar(s[i])]

RECURSIVE StrLess(_, _)
StrLess(s, t) ==
    IF t = <<>> THEN FALSE
    ELSE IF s = <<>> THEN TRUE
    ELSE IF Code(Head(s)) # Code(Head(t)) THEN Code(Head(s)) < Code(Head(t))
    ELSE StrLess(Tail(s), Tail(t))

\* Series.str.contains(pat, case=False, na=False) for a literal pattern
StrContains(s, pat) ==
    \E i \in 0..(Len(s) - Len(pat)) :
        SubSeq(Lower(s), i + 1, i + Len(pat)) = Lower(pat)

----------------------------------------------------------------------------
(* Cells *)

Num(n) == [k |-> "num", v |-> n]
NA == [k |-> "na", v |-> 0]
Txt(n) == [k |-> "txt", v |-> n]
NaN == [k |-> "nan", v |-> 0]

RawNum(n) == [k |-> "num", v |-> n]
RawText == [k |-> "text", v |-> 0]
RawBlank == [k |-> "blank", v |-> 0]

\* the missing value (None / NaN) of an identity cell. get_all_records fills an
\* empty cell with "" (default_blank), so no worksheet row holds it
Missing == <<"<NA>">>

\* pd.isna of an identity cell
IsNa(x) == x = Missing

----------------------------------------------------------------------------
(* Loader: get_data_from_google_sheet *)

required_columns ==
    {"G-Sub Group(Name)", "G-Loc/Brand(Name)", "Description",
     "Location Name", "Unit", "Quantity"}

\* a header cell is <<leading blanks, name, trailing blanks>>
StripHeader(h) == <<0, h[2], 0>>

\* columns of pd.DataFrame(worksheet.get_all_records()) after str.strip():
\* a worksheet with no data row gives a frame with no columns
Columns(ws) ==
    IF ws.rows = <<>> THEN {} ELSE {StripHeader(h) : h \in ws.header}

\* a check that leaves "Quantity" out
MissingIdentityColumns(ws) ==
    {c \in required_columns \ {"Quantity"} : <<0, c, 0>> \notin Columns(ws)}

missing_columns(ws) ==
    {c \in required_columns : <<0, c, 0>> \notin Columns(ws)}

\* pd.to_numeric(errors="coerce")
ToNumeric(raw) == IF raw.k = "num" THEN Num(raw.v) ELSE NaN

\* .clip(lower=0): NaN stays NaN
ClipLower0(x) == IF x.k = "num" /\ x.v < 0 THEN Num(0) ELSE x

\* .fillna(0)
FillNa0(x) == IF x.k = "nan" THEN 0 ELSE x.v

NoClipQuantity(raw) == FillNa0(ToNumeric(raw))

NormalizeQuantity(raw) == FillNa0(ClipLower0(ToNumeric(raw)))

NormalizeRow(r) ==
    [sg |-> r.sg, brand |-> r.brand, desc |-> r.desc, loc |-> r.loc,
     unit |-> r.unit, qty |-> NormalizeQuantity(r.qty)]

RowInconsistent(r) ==
    IsNa(r.sg) \/ IsNa(r.brand) \/ IsNa(r.desc) \/ IsNa(r.loc) \/ IsNa(r.unit)

\* the warnings of one worksheet: row idx (0-based) is reported as idx + 2
RECURSIVE RowWarnings(_, _, _)
RowWarnings(w, rows, i) ==
    IF i > Len(rows) THEN <<>>
    ELSE (IF RowInconsistent(rows[i]) THEN <<<<w, i + 1>>>> ELSE <<>>)
         \o RowWarnings(w, rows, i + 1)

----------------------------------------------------------------------------
(* Labels and column names *)

\* date.split('/')[0] and [1] exist
WellFormed(label) == Len(label) >= 2

\* f"{d.split('/')[0]}/{d.split('/')[1]}"
Prefix(label) == <<label[1], label[2]>>

change_column_name(date_to, date_from) == <<Prefix(date_to), Prefix(date_from)>>

AllWellFormed(dates) == \A w \in weeks : WellFormed(dates[w])

\* the first i in 1..NumWeeks-1 whose pair of labels cannot be split
FirstBadPair(dates) ==
    CHOOSE i \in 1..NumWeeks :
        /\ i = NumWeeks \/ ~WellFormed(dates[i]) \/ ~WellFormed(dates[i + 1])
        /\ \A j \in 1..(i - 1) : WellFormed(dates[j]) /\ WellFormed(dates[j + 1])

\* df[key] = value: a new column, or the existing one overwritten
Put(f, key, value) ==
    [x \in (DOMAIN f) \cup {key} |-> IF x = key THEN value ELSE f[x]]

EmptyColumns == [x \in {} |-> NA]

----------------------------------------------------------------------------
(* Sorting *)

RECURSIVE TupleLess(_, _)
TupleLess(a, b) ==
    IF a = <<>> \/ b = <<>> THEN FALSE
    ELSE IF Head(a) # Head(b) THEN StrLess(Head(a), Head(b))
    ELSE TupleLess(Tail(a), Tail(b))

Key(r, by) == [i \in 1..Len(by) |-> r[by[i]]]

\* DataFrame.sort_values(by=[...]) on several columns: a stable sort
RECURSIVE SortValues(_, _)
SortValues(df, by) ==
    IF df = <<>> THEN <<>>
    ELSE LET n == Len(df)
             x == df[n]
             sorted == SortValues(SubSeq(df, 1, n - 1), by)
             pos == Cardinality({i \in 1..Len(sorted) :
                        ~TupleLess(Key(x, by), Key(sorted[i], by))})
         IN  SubSeq(sorted, 1, pos) \o <<x>> \o SubSeq(sorted, pos + 1, Len(sorted))

----------------------------------------------------------------------------
(* Reconciliation: joins, weekly change columns *)

SameIdentity(a, b) ==
    /\ a.sg = b.sg /\ a.brand = b.brand /\ a.desc = b.desc
    /\ a.loc = b.loc /\ a.unit = b.unit

SameProduct(a, b) ==
    a.sg = b.sg /\ a.brand = b.brand /\ a.desc = b.desc /\ a.unit = b.unit

RECURSIVE SumQuantity(_)
SumQuantity(rows) ==
    IF rows = <<>> THEN 0 ELSE Head(rows).qty + SumQuantity(Tail(rows))

\* the per-location lookup of one week: first match, or "N/A"
MatchQuantity(df_week, row) ==
    LET matching_row == SelectSeq(df_week, LAMBDA x : SameIdentity(x, row))
    IN  IF matching_row # <<>> THEN Num(matching_row[1].qty) ELSE NA

\* the cross-location lookup of one week: sum of the matches, or 0
MatchTotal(df_week, row) ==
    LET matching_rows == SelectSeq(df_week, LAMBDA x : SameProduct(x, row))
    IN  IF matching_rows # <<>> THEN Num(SumQuantity(matching_rows)) ELSE Num(0)

\* "for week in sorted_weeks: if week == 'week 1': continue; ..." from week w on
RECURSIVE JoinLocation(_, _, _, _, _)
JoinLocation(dfs, dates, row, q, w) ==
    IF w > NumWeeks THEN q
    ELSE JoinLocation(dfs, dates, row,
                      Put(q, dates[w], MatchQuantity(dfs[w], row)), w + 1)

RECURSIVE JoinTotal(_, _, _, _, _)
JoinTotal(dfs, dates, row, q, w) ==
    IF w > NumWeeks THEN q
    ELSE JoinTotal(dfs, dates, row,
                   Put(q, dates[w], MatchTotal(dfs[w], row)), w + 1)

\* pd.to_numeric(col, errors="coerce").fillna(0) of one cell
ToNumber0(c) == IF c.k = "num" THEN c.v ELSE 0

\* the change cell of one row: the difference, "N/A" when either side is 0
Change(qfrom, qto) ==
    IF qfrom = 0 \/ qto = 0 THEN NA ELSE Num(qto - qfrom)

\* "for i in range(len(sorted_weeks) - 1): ..." on one row, from pair i on
RECURSIVE ChangeLoop(_, _, _)
ChangeLoop(dates, row, i) ==
    IF i > NumWeeks - 1 THEN row
    ELSE LET date_from == dates[i]
             date_to == dates[i + 1]
             q1 == Put(row.q, date_from, Num(ToNumber0(row.q[date_from])))
             q2 == Put(q1, date_to, Num(ToNumber0(q1[date_to])))
             name == change_column_name(date_to, date_from)
             c == Change(q2[date_from].v, q2[date_to].v)
         IN  ChangeLoop(dates,
                        [row EXCEPT !.q = q2, !.chg = Put(row.chg, name, c)],
                        i + 1)

\* df_to_html_table formats the date and change columns in place
FormatCell(c) == IF c.k = "num" THEN Txt(c.v) ELSE c

FormatRow(row) ==
    [row EXCEPT !.q = [x \in DOMAIN row.q |-> FormatCell(row.q[x])],
                !.chg = [x \in DOMAIN row.chg |-> FormatCell(row.chg[x])]]

FormatTable(df) == [i \in 1..Len(df) |-> FormatRow(df[i])]

\* df_to_html_table formats "date_columns + change_columns" one after the
\* other: a label held by two weeks names one column twice, and the second
\* pass applies the number format to the text of the first (ValueError)
FormatFails(dates) == \E w, v \in weeks : w # v /\ dates[w] = dates[v]

----------------------------------------------------------------------------
(* The cross-location aggregation *)

group_cols_total == <<"sg", "brand", "desc", "unit">>

\* one row per run of equal products of a frame sorted by product
RECURSIVE FirstOfEachProduct(_)
FirstOfEachProduct(sorted) ==
    IF sorted = <<>> THEN <<>>
    ELSE LET rest == FirstOfEachProduct(Tail(sorted))
         IN  IF Len(sorted) >= 2 /\ SameProduct(sorted[1], sorted[2])
             THEN rest ELSE <<Head(sorted)>> \o rest

\* df_week1.groupby(group_cols_total).agg({"Quantity": "sum"}).reset_index():
\* groups in key order, rows with a missing key dropped
GroupSum(df) ==
    LET keyed == SelectSeq(df, LAMBDA r :
                     ~(IsNa(r.sg) \/ IsNa(r.brand) \/ IsNa(r.desc) \/ IsNa(r.unit)))
        groups == FirstOfEachProduct(SortValues(keyed, group_cols_total))
    IN  [i \in 1..Len(groups) |->
            [sg |-> groups[i].sg, brand |-> groups[i].brand,
             desc |-> groups[i].desc, unit |-> groups[i].unit,
             qty |-> SumQuantity(SelectSeq(keyed,
                         LAMBDA x : SameProduct(x, groups[i])))]]

\* low_stock_df after the week columns are added
AggregateTable(dfs, dates) ==
    LET g == GroupSum(dfs[1])
    IN  [i \in 1..Len(g) |->
            [sg |-> g[i].sg, brand |-> g[i].brand, desc |-> g[i].desc,
             unit |-> g[i].unit,
             q |-> JoinTotal(dfs, dates, g[i], (dates[1] :> Num(g[i].qty)), 2),
             chg |-> EmptyColumns]]

\* lambda x: x if x != "N/A" and x > 0 else 0
LastWeekUsage(x) == IF x # NA /\ x.v > 0 THEN x.v ELSE 0

\* low_stock_df after the change columns and "Last Week Usage" are added
UsageTable(df, dates) ==
    [i \in 1..Len(df) |->
        LET r == ChangeLoop(dates, df[i], 1)
            usage_column == change_column_name(dates[2], dates[1])
        IN  [sg |-> r.sg, brand |-> r.brand, desc |-> r.desc, unit |-> r.unit,
             q |-> r.q, chg |-> r.chg,
             usage |-> LastWeekUsage(r.chg[usage_column])]]

\* low_stock_df[week 1 column] < low_stock_df["Last Week Usage"]
BelowUsage(stock, usage) == stock < usage

FilterLowStock(df, dates) ==
    SelectSeq(df, LAMBDA r : BelowUsage(r.q[dates[1]].v, r.usage))

\* the rows of one table with the per-location week columns and changes
LocationRows(dfs, dates, rows) ==
    [i \in 1..Len(rows) |->
        ChangeLoop(dates,
            [sg |-> rows[i].sg, brand |-> rows[i].brand, desc |-> rows[i].desc,
             loc |-> rows[i].loc, unit |-> rows[i].unit,
             q |-> JoinLocation(dfs, dates, rows[i],
                                (dates[1] :> Num(rows[i].qty)), 2),
             chg |-> EmptyColumns], 1)]

\* pd.concat over the flagged products of their week 1 rows
RECURSIVE DetailTable(_, _, _)
DetailTable(dfs, dates, flagged) ==
    IF flagged = <<>> THEN <<>>
    ELSE LocationRows(dfs, dates,
             SelectSeq(dfs[1], LAMBDA x : SameProduct(x, Head(flagged))))
         \o DetailTable(dfs, dates, Tail(flagged))

\* the three-column keyword filter of both search forms
Matches(r, term) ==
    StrContains(r.sg, term) \/ StrContains(r.brand, term) \/ StrContains(r.desc, term)

\* result_df.sort_values(by=["Sub Group", "Brand", "Desc"])
search_sort_by == <<"sg", "brand", "desc">>

\* detailed_low_stock.sort_values(by=["Sub Group", "Brand", "Desc", "Location"])
detail_sort_by == <<"sg", "brand", "desc", "loc">>

----------------------------------------------------------------------------
(* The worksheets the model is run on *)

ExactHeader == {<<0, c, 0>> : c \in required_columns}
PaddedHeader == {<<1, c, 1>> : c \in required_columns} \cup {<<0, "Remarks", 0>>}
HeaderWithout(c) == ExactHeader \ {<<0, c, 0>>}

P1T == [sg |-> <<"b">>, brand |-> <<"x">>, desc |-> <<"A", "b">>,
        loc |-> <<"T">>, unit |-> <<"u">>]
P1D == [P1T EXCEPT !.loc = <<"D">>]
P2T == [P1T EXCEPT !.sg = <<"a">>, !.desc = <<"b", "c">>]
P3T == [P1T EXCEPT !.unit = <<"c">>]
Identities == {P1T, P1D, P2T, P3T}

RawRow(id, raw) ==
    [sg |-> id.sg, brand |-> id.brand, desc |-> id.desc, loc |-> id.loc,
     unit |-> id.unit, qty |-> raw]

Row(id, n) == RawRow(id, RawNum(n))

\* "m/d/y" labels of five different weeks
StdLabel(w) == <<1, w, 1>>

Worksheet(header, rows, label) ==
    [exists |-> TRUE, header |-> header, rows |-> rows, I1 |-> label]

NoWorksheet == [exists |-> FALSE, header |-> {}, rows |-> <<>>, I1 |-> <<>>]

StdSheet(w) == Worksheet(ExactHeader, <<Row(P1T, 1)>>, StdLabel(w))

\* (a) reconciliation: rows and quantities vary, labels are five different dates
Week1Rows ==
    LET R == {Row(id, n) : id \in Identities, n \in 0..MaxQty}
    IN  {<<r>> : r \in R} \cup {<<r1, r2>> : r1 \in R, r2 \in R}

Week2Rows ==
    {<<Row(id, n)>> : id \in Identities, n \in 0..MaxQty}
    \cup {<<Row(P1T, n), Row(P1D, m)>> : n \in 0..MaxQty, m \in 0..MaxQty}

OlderRows == {<<Row(P1T, 1)>>, <<Row(P1T, 0), Row(P2T, MaxQty)>>}

ReconSheets ==
    {[w \in weeks |->
        Worksheet(ExactHeader,
                  IF w = 1 THEN r1 ELSE IF w = 2 THEN r2 ELSE ro,
                  StdLabel(w))] :
        r1 \in Week1Rows, r2 \in Week2Rows, ro \in OlderRows}

\* (b) labels: a worksheet may repeat the label of an earlier one, or its
\* first two components with a third of its own ("2025/01/05", "2025/01/12")
LabelsOf(w) ==
    {<<1, d, 1>> : d \in 1..w} \cup {<<1, d, w>> : d \in 1..(w - 1)}

LabelVectors ==
    {<<l1, l2, l3, l4, l5>> :
        l1 \in LabelsOf(1), l2 \in LabelsOf(2), l3 \in LabelsOf(3),
        l4 \in LabelsOf(4), l5 \in LabelsOf(5)}

LabelSheets ==
    {[w \in weeks |->
        Worksheet(ExactHeader,
                  IF w = 1 THEN <<Row(P1T, q1)>>
                  ELSE IF w = 2 THEN <<Row(P1T, MaxQty), Row(P1D, 1)>>
                  ELSE IF w = 3 THEN <<Row(P1T, 1)>>
                  ELSE <<Row(P1T, qo)>>,
                  l[w])] :
        l \in LabelVectors, q1 \in 0..1, qo \in {1, MaxQty + 1}}

\* (c) labels: cell I1 empty, or holding a text without '/'
BadLabelSheets ==
    {[w \in weeks |->
        Worksheet(ExactHeader, <<Row(P1T, 1)>>,
                  IF w \in S THEN bad ELSE StdLabel(w))] :
        S \in (SUBSET weeks) \ {{}}, bad \in {<<>>, <<7>>}}

\* (d) worksheets: one is missing, has no data row or lacks a column
BadWorksheets ==
    {NoWorksheet, Worksheet(ExactHeader, <<>>, StdLabel(1))}
    \cup {Worksheet(HeaderWithout(c), <<Row(P1T, 1)>>, StdLabel(1)) :
              c \in required_columns}

StatusSheets ==
    {[w \in weeks |->
        IF w = b THEN bad
        ELSE Worksheet(IF w \in P THEN PaddedHeader ELSE ExactHeader,
                       <<Row(P1T, 1)>>, StdLabel(w))] :
        b \in weeks, bad \in BadWorksheets, P \in SUBSET weeks}
    \cup {[w \in weeks |->
              Worksheet(IF w \in P THEN PaddedHeader ELSE ExactHeader,
                        <<Row(P1T, 1)>>, StdLabel(w))] : P \in SUBSET weeks}

\* (e) cells: blank identity cells, negative and non-numeric quantities
RawQuantities == {RawNum(n) : n \in (-1)..MaxQty} \cup {RawText, RawBlank}

BlankVariants ==
    {P1T} \cup {[P1T EXCEPT ![f] = <<>>] : f \in {"sg", "brand", "desc", "loc", "unit"}}

RawRows ==
    LET R == {RawRow(id, raw) : id \in BlankVariants, raw \in RawQuantities}
    IN  {<<r>> : r \in R}
        \cup {<<r, r2>> : r \in R,
                  r2 \in {Row(P1T, 1), RawRow([P1T EXCEPT !.sg = <<>>], RawNum(-1))}}

RawSheets ==
    {[w \in weeks |->
        IF w = b THEN Worksheet(ExactHeader, rows, StdLabel(w)) ELSE StdSheet(w)] :
        b \in weeks, rows \in RawRows}

Sheets == ReconSheets \cup LabelSheets \cup BadLabelSheets
          \cup StatusSheets \cup RawSheets

SearchTerms == {<<>>, <<"a", "B">>, <<"z">>}
LowStockSearchTerms == {<<>>, <<"z">>}

----------------------------------------------------------------------------
(* The script run *)

NoTable == <<>>

Fresh ==
    /\ searchOut = "none" /\ search_term = <<>> /\ submit_button = FALSE
    /\ result_df = NoTable /\ low_stock_df = NoTable
    /\ low_stock_total = NoTable /\ detailed_low_stock = NoTable
    /\ low_stock_search_term = <<>> /\ low_stock_submit_button = FALSE
    /\ lsOut = "none" /\ lsShown = NoTable /\ ran = {}
    /\ errOut = "" /\ warnOut = <<>>

Init ==
    /\ sheet \in Sheets
    /\ pc = "load" /\ wk = 1
    /\ dataframes = [w \in weeks |-> <<>>]
    /\ update_dates = [w \in weeks |-> <<>>]
    /\ inconsistencies = <<>>
    /\ Fresh

\* st.error(...) followed by st.stop() inside the loader
LoaderStop(message) ==
    /\ errOut' = message
    /\ pc' = "stopped"
    /\ UNCHANGED <<sheet, wk, dataframes, update_dates, inconsistencies, warnOut,
                   search_term, submit_button, searchOut, result_df, low_stock_df,
                   low_stock_total, detailed_low_stock, low_stock_search_term,
                   low_stock_submit_button, lsOut, lsShown, ran>>

\* one iteration of "for week in weeks" of get_data_from_google_sheet; the
\* return follows the fifth. A worksheet without data rows gives a frame
\* without columns: the column check reports it, or (where the empty frame
\* has no string columns to strip) the exception is reported by the caller
LoadWeek ==
    /\ pc = "load"
    /\ LET worksheet == sheet[wk]
           df == [i \in 1..Len(worksheet.rows) |-> NormalizeRow(worksheet.rows[i])]
       IN  IF ~worksheet.exists THEN LoaderStop("worksheet_not_found")
           ELSE IF worksheet.rows = <<>>
           THEN \E message \in {"missing_columns", "load_exception"} :
                    LoaderStop(message)
           ELSE IF missing_columns(worksheet) # {} THEN LoaderStop("missing_columns")
           ELSE /\ dataframes' = [dataframes EXCEPT ![wk] = df]
                /\ inconsistencies' = inconsistencies \o RowWarnings(wk, df, 1)
                /\ update_dates' = [update_dates EXCEPT ![wk] = worksheet.I1]
                /\ IF wk = NumWeeks
                   THEN pc' = "loaded" /\ wk' = wk
                   ELSE pc' = pc /\ wk' = wk + 1
                /\ UNCHANGED <<sheet, errOut, warnOut, search_term, submit_button,
                               searchOut, result_df, low_stock_df, low_stock_total,
                               detailed_low_stock, low_stock_search_term,
                               low_stock_submit_button, lsOut, lsShown, ran>>

\* "if inconsistencies: st.warning(...)"
ShowWarnings ==
    /\ pc = "loaded"
    /\ warnOut' = inconsistencies
    /\ pc' = "search"
    /\ UNCHANGED <<sheet, wk, dataframes, update_dates, inconsistencies, errOut,
                   search_term, submit_button, searchOut, result_df, low_stock_df,
                   low_stock_total, detailed_low_stock, low_stock_search_term,
                   low_stock_submit_button, lsOut, lsShown, ran>>

\* python truth value of "search_term or submit_button"
SearchActive(term, button) == term # <<>> \/ button

\* the code regions a change loop went through before a label failed to split
RegionsBeforeCrash(join, delta) ==
    {join} \cup (IF FirstBadPair(update_dates) > 1 THEN {delta} ELSE {})

\* the search result table after the sort
SearchTable(filtered_df) ==
    SortValues(LocationRows(dataframes, update_dates, filtered_df), search_sort_by)

\* the inventory search form and the block under it
InventorySearch ==
    /\ pc = "search"
    /\ \E term \in SearchTerms, button \in BOOLEAN :
        LET filtered_df == SelectSeq(dataframes[1], LAMBDA r : Matches(r, term))
            found == SearchActive(term, button) /\ filtered_df # <<>>
            split_fails == found /\ ~AllWellFormed(update_dates)
            format_fails == found /\ ~split_fails /\ FormatFails(update_dates)
            crash == split_fails \/ format_fails
        IN  /\ search_term' = term
            /\ submit_button' = button
            /\ searchOut' = IF crash THEN "none"
                             ELSE IF found THEN "table"
                             ELSE IF SearchActive(term, button) THEN "no_results"
                             ELSE "no_query"
            /\ result_df' = IF split_fails \/ ~found THEN NoTable
                             ELSE IF format_fails THEN SearchTable(filtered_df)
                             ELSE FormatTable(SearchTable(filtered_df))
            /\ ran' = IF split_fails
                         THEN ran \cup RegionsBeforeCrash("search_join", "search_change")
                       ELSE IF found THEN ran \cup {"search_join", "search_change"}
                       ELSE ran
            /\ errOut' = IF crash THEN "exception" ELSE errOut
            /\ pc' = IF crash THEN "crashed" ELSE "aggregate"
    /\ UNCHANGED <<sheet, wk, dataframes, update_dates, inconsistencies, warnOut,
                   low_stock_df, low_stock_total, detailed_low_stock,
                   low_stock_search_term, low_stock_submit_button, lsOut, lsShown>>

\* the groupby and the week columns of low_stock_df
Aggregate ==
    /\ pc = "aggregate"
    /\ low_stock_df' = AggregateTable(dataframes, update_dates)
    /\ ran' = ran \cup {"aggregate"}
    /\ pc' = "change"
    /\ UNCHANGED <<sheet, wk, dataframes, update_dates, inconsistencies, errOut,
                   warnOut, search_term, submit_button, searchOut, result_df,
                   low_stock_total, detailed_low_stock, low_stock_search_term,
                   low_stock_submit_button, lsOut, lsShown>>

\* the change columns of low_stock_df and "Last Week Usage"
ChangeAndUsage ==
    /\ pc = "change"
    /\ IF AllWellFormed(update_dates)
       THEN /\ low_stock_df' = UsageTable(low_stock_df, update_dates)
            /\ ran' = ran \cup {"change", "usage"}
            /\ pc' = "classify"
            /\ errOut' = errOut
       ELSE /\ low_stock_df' = low_stock_df
            /\ ran' = ran \cup (IF FirstBadPair(update_dates) > 1
                                   THEN {"change"} ELSE {})
            /\ pc' = "crashed"
            /\ errOut' = "exception"
    /\ UNCHANGED <<sheet, wk, dataframes, update_dates, inconsistencies,
                   warnOut, search_term, submit_button, searchOut, result_df,
                   low_stock_total, detailed_low_stock, low_stock_search_term,
                   low_stock_submit_button, lsOut, lsShown>>

\* the low-stock filter and, for the flagged products, the detail table
Classify ==
    /\ pc = "classify"
    /\ LET flagged == FilterLowStock(low_stock_df, update_dates)
       IN  /\ low_stock_total' = flagged
           /\ detailed_low_stock' = DetailTable(dataframes, update_dates, flagged)
           /\ ran' = ran \cup {"classify"}
                          \cup (IF flagged # <<>> THEN {"detail"} ELSE {})
           /\ lsOut' = IF flagged # <<>> THEN lsOut ELSE "no_low_stock"
           /\ pc' = IF flagged # <<>> THEN "lsdisplay" ELSE "done"
    /\ UNCHANGED <<sheet, wk, dataframes, update_dates, inconsistencies, errOut,
                   warnOut, search_term, submit_button, searchOut, result_df,
                   low_stock_df, low_stock_search_term, low_stock_submit_button,
                   lsShown>>

\* the low-stock search form, the sort of the detail table and its display
LowStockDisplay ==
    /\ pc = "lsdisplay"
    /\ \E term \in LowStockSearchTerms, button \in BOOLEAN :
        LET sorted == SortValues(detailed_low_stock, detail_sort_by)
            filtered_low_stock == SelectSeq(sorted, LAMBDA r : Matches(r, term))
            active == SearchActive(term, button)
            shown == IF active THEN filtered_low_stock ELSE sorted
            crash == shown # <<>> /\ FormatFails(update_dates)
        IN  /\ low_stock_search_term' = term
            /\ low_stock_submit_button' = button
            /\ detailed_low_stock' = IF active \/ crash THEN sorted
                                      ELSE FormatTable(sorted)
            /\ lsShown' = IF crash THEN NoTable ELSE FormatTable(shown)
            /\ lsOut' = IF crash THEN "none"
                         ELSE IF shown # <<>> THEN "table" ELSE "no_match"
            /\ errOut' = IF crash THEN "exception" ELSE errOut
            /\ pc' = IF crash THEN "crashed" ELSE "done"
    /\ UNCHANGED <<sheet, wk, dataframes, update_dates, inconsistencies,
                   warnOut, search_term, submit_button, searchOut, result_df,
                   low_stock_df, low_stock_total, ran>>

\* Streamlit runs the script again on the next interaction. The loader is
\* decorated with st.cache_data: a completed load is returned from the cache,
\* one ended by st.stop() is executed again
Rerun ==
    /\ pc \in {"done", "crashed", "stopped"}
    /\ searchOut' = "none" /\ search_term' = <<>> /\ submit_button' = FALSE
    /\ result_df' = NoTable /\ low_stock_df' = NoTable
    /\ low_stock_total' = NoTable /\ detailed_low_stock' = NoTable
    /\ low_stock_search_term' = <<>> /\ low_stock_submit_button' = FALSE
    /\ lsOut' = "none" /\ lsShown' = NoTable /\ ran' = {}
    /\ errOut' = "" /\ warnOut' = <<>>
    /\ IF pc = "stopped"
       THEN /\ pc' = "load" /\ wk' = 1
            /\ dataframes' = [w \in weeks |-> <<>>]
            /\ update_dates' = [w \in weeks |-> <<>>]
            /\ inconsistencies' = <<>>
       ELSE /\ pc' = "loaded"
            /\ UNCHANGED <<wk, dataframes, update_dates, inconsistencies>>
    /\ UNCHANGED sheet

Next ==
    \/ LoadWeek
    \/ ShowWarnings
    \/ InventorySearch
    \/ Aggregate
    \/ ChangeAndUsage
    \/ Classify
    \/ LowStockDisplay
    \/ Rerun

Spec == Init /\ [][Next]_vars

----------------------------------------------------------------------------
(* Vocabulary of the properties, stated on the worksheets and on the       *)
(* loaded snapshots rather than through the operators of the pipeline      *)

Loaded == pc \notin {"load", "stopped"}
AfterSearch == pc \in {"aggregate", "change", "classify", "lsdisplay", "done"}
AfterUsage == pc \in {"classify", "lsdisplay", "done"}
AfterClassify == pc \in {"lsdisplay", "done"}

\* the five labels are dates "m/d/..." with five different "m/d"
DistinctLabels ==
    /\ \A w \in weeks : Len(sheet[w].I1) >= 2
    /\ \A w, v \in weeks :
           w # v => <<sheet[w].I1[1], sheet[w].I1[2]>> # <<sheet[v].I1[1], sheet[v].I1[2]>>

ProductOf(r) == <<r.sg, r.brand, r.desc, r.unit>>
IdentityOf(r) == <<r.sg, r.brand, r.desc, r.loc, r.unit>>

RECURSIVE SumOver(_, _)
SumOver(df, I) ==
    IF I = {} THEN 0
    ELSE LET i == CHOOSE x \in I : TRUE
         IN  df[i].qty + SumOver(df, I \ {i})

\* the quantity of product p summed over the locations of week w; 0 when absent
Total(w, p) ==
    SumOver(dataframes[w],
            {i \in 1..Len(dataframes[w]) : ProductOf(dataframes[w][i]) = p})

Records(w, id) ==
    {i \in 1..Len(dataframes[w]) : IdentityOf(dataframes[w][i]) = id}

Max0(n) == IF n > 0 THEN n ELSE 0

\* the label column of a table row as a number
IsNumber(c, n) == c.k \in {"num", "txt"} /\ c.v = n

\* row i of week 1 is listed in the low-stock detail table
InDetail(i) ==
    \E j \in 1..Len(detailed_low_stock) :
        IdentityOf(detailed_low_stock[j]) = IdentityOf(dataframes[1][i])

----------------------------------------------------------------------------
(* C1: for every product of week 1, Last Week Usage = max(0, Q2 - Q1) with *)
(* Q1, Q2 the week 1 and week 2 totals over locations (absent = 0).         *)
(* Stated for worksheets whose labels are five different dates.            *)
C1_UsageIsPositivePartOfDrop ==
    (AfterUsage /\ DistinctLabels) =>
        \A i \in 1..Len(low_stock_df) :
            LET p == ProductOf(low_stock_df[i])
            IN  low_stock_df[i].usage = Max0(Total(2, p) - Total(1, p))

(* C2: a week 1 row is listed in the low-stock detail table if and only if *)
(* the week 1 total of its product over all locations is strictly below    *)
(* the product's Last Week Usage, max(0, Q2 - Q1) of the week 1 and week 2  *)
(* totals. Stated for worksheets whose labels are five different dates.    *)
C2_DetailIffTotalBelowUsage ==
    (pc = "done" /\ DistinctLabels) =>
        \A i \in 1..Len(dataframes[1]) :
            LET p == ProductOf(dataframes[1][i])
            IN  InDetail(i) <=> Total(1, p) < Max0(Total(2, p) - Total(1, p))

C3_LocationChanges(table) ==
    \A j \in 1..Len(table) : \A i \in 1..(NumWeeks - 1) :
        LET id == IdentityOf(table[j])
            name == <<<<sheet[i + 1].I1[1], sheet[i + 1].I1[2]>>,
                      <<sheet[i].I1[1], sheet[i].I1[2]>>>>
            q(w) == dataframes[w][CHOOSE r \in Records(w, id) : TRUE].qty
        IN  (\A w \in weeks : Cardinality(Records(w, id)) = 1) =>
                IsNumber(table[j].chg[name], q(i + 1) - q(i))

(* C3: in the search result, the aggregated table and the detail table, a  *)
(* row whose identity has a record in each of the five weeks holds, in the  *)
(* change column of weeks i and i+1, the number q[i+1] - q[i]. Stated for   *)
(* labels that are five different dates and identities with one record per *)
(* week.                                                                   *)
C3_ChangeIsDifference ==
    DistinctLabels =>
        /\ AfterSearch => C3_LocationChanges(result_df)
        /\ AfterClassify => C3_LocationChanges(detailed_low_stock)
        /\ AfterUsage =>
               \A j \in 1..Len(low_stock_df) : \A i \in 1..(NumWeeks - 1) :
                   LET p == ProductOf(low_stock_df[j])
                       name == <<<<sheet[i + 1].I1[1], sheet[i + 1].I1[2]>>,
                                 <<sheet[i].I1[1], sheet[i].I1[2]>>>>
                   IN  (\A w \in weeks :
                           \E r \in 1..Len(dataframes[w]) :
                               ProductOf(dataframes[w][r]) = p) =>
                       IsNumber(low_stock_df[j].chg[name],
                                Total(i + 1, p) - Total(i, p))

(* C4: whenever the inventory search query is empty, the search step ends  *)
(* in the "no query" state, never in a table or in "no matching results".   *)
C4_EmptyQueryGivesNoQuery ==
    (AfterSearch /\ search_term = <<>>) => searchOut = "no_query"

(* C5: every Quantity of every loaded snapshot is a number >= 0: a negative *)
(* or non-numeric raw quantity is stored as 0, a non-negative numeric one   *)
(* unchanged.                                                              *)
C5_QuantitiesNormalized ==
    \A w \in weeks :
        dataframes[w] # <<>> =>
            /\ Len(dataframes[w]) = Len(sheet[w].rows)
            /\ \A i \in 1..Len(dataframes[w]) :
                   LET raw == sheet[w].rows[i].qty
                   IN  /\ dataframes[w][i].qty \in Nat
                       /\ dataframes[w][i].qty =
                              IF raw.k = "num" /\ raw.v >= 0 THEN raw.v ELSE 0

\* a snapshot with a negative and a non-numeric raw quantity went through
\* the whole run
C5_Witness ==
    /\ pc = "done"
    /\ \E w \in weeks : \E i, j \in 1..Len(sheet[w].rows) :
           /\ sheet[w].rows[i].qty.k = "num" /\ sheet[w].rows[i].qty.v < 0
           /\ sheet[w].rows[j].qty.k = "text"

(* C6: if the I1 label cell of any of the five worksheets is empty, the run *)
(* fails in the loader: no reconciliation step (search join, aggregation,   *)
(* change or usage computation) runs.                                      *)
C6_EmptyLabelStopsBeforeReconciliation ==
    (\E w \in weeks : sheet[w].exists /\ sheet[w].I1 = <<>>) => ran = {}

\* worksheet w is missing or lacks a required column once headers are stripped
C7_Bad(w) ==
    \/ ~sheet[w].exists
    \/ \E c \in required_columns : \A h \in sheet[w].header : h[2] # c

(* C7: if a worksheet is missing or lacks one of the six required columns, *)
(* the run reports an error and stops inside the loader, at that worksheet: *)
(* no search join, aggregation, change or classification step is executed.  *)
C7_BadWorksheetStopsInLoader ==
    \A b \in weeks :
        C7_Bad(b) =>
            /\ pc \in {"load", "stopped"}
            /\ wk <= b
            /\ ran = {}
            /\ result_df = NoTable /\ low_stock_df = NoTable
            /\ low_stock_total = NoTable /\ detailed_low_stock = NoTable
            /\ (pc = "stopped" /\ wk = b) =>
                   errOut = IF sheet[b].exists THEN "missing_columns"
                            ELSE "worksheet_not_found"

\* the loader read two worksheets with padded headers and stopped at the
\* third, which lacks a column
C7_Witness ==
    /\ pc = "stopped" /\ wk = 3 /\ errOut = "missing_columns"
    /\ sheet[3].exists /\ C7_Bad(3)
    /\ sheet[1].header = PaddedHeader /\ sheet[2].header = PaddedHeader

(* C8: for every row with a null or blank identity field exactly one        *)
(* warning naming its worksheet and row is collected, and none for a row    *)
(* with all five identity fields filled.                                   *)
C8_BlankRowsAreWarned ==
    Loaded =>
        \A w \in weeks : \A i \in 1..Len(sheet[w].rows) :
            LET r == sheet[w].rows[i]
                blank == \E f \in {"sg", "brand", "desc", "loc", "unit"} :
                             r[f] = <<>> \/ r[f] = Missing
                n == Cardinality({k \in 1..Len(inconsistencies) :
                                     inconsistencies[k] = <<w, i + 1>>})
            IN  n = IF blank THEN 1 ELSE 0

C9_Sorted(table) ==
    \A i, j \in 1..Len(table) :
        i < j => ~TupleLess(<<table[j].sg, table[j].brand, table[j].desc, table[j].loc>>,
                            <<table[i].sg, table[i].brand, table[i].desc, table[i].loc>>)

(* C9: the search result table and the low-stock detail table list their   *)
(* rows in ascending (Sub Group, Brand, Desc), ties in ascending Location.  *)
C9_TablesSortedWithLocation ==
    pc = "done" =>
        /\ C9_Sorted(result_df)
        /\ C9_Sorted(detailed_low_stock)
        /\ C9_Sorted(lsShown)

(* C10: a product whose week 1 total over all locations is 0 never appears *)
(* in the low-stock output, whatever its week 2 quantity.                   *)
C10_ZeroStockNeverFlagged ==
    (pc = "done" /\ lsOut = "table") =>
        \A i \in 1..Len(dataframes[1]) : \A j \in 1..Len(lsShown) :
            Total(1, ProductOf(dataframes[1][i])) = 0 =>
                ProductOf(lsShown[j]) # ProductOf(dataframes[1][i])

====
